---- MODULE Spec2Model ----
(***************************************************************************)
(* Desktop notes: the record store (DatabaseManager over one SQLite table) *)
(* and the start-up protocol of a DesktopNotesApplet instance              *)
(* (init / initializeNewNote / loadNoteData).  Every instance is its own   *)
(* single-threaded actor; the instances share only the notes table, and    *)
(* one SQL statement is the unit of interleaving.                          *)
(***************************************************************************)
EXTENDS Integers, Sequences, FiniteSets, TLC

\* ---------------------------------------------------------------- bounds
NumInst == 2
MaxInitId == 2
MaxRowId == 3
MaxGestures == 1
MaxSaves == 2

Inst == 1..NumInst

\* ------------------------------------------------------------- notedata.h
InvalidId == -1

StatusShown == "shown"
StatusHidden == "hidden"
StatusPending == "pending_placement"
Statuses == {StatusShown, StatusHidden, StatusPending}

DefaultPosX == 50
DefaultPosY == 50
DefaultWidth == 200
DefaultHeight == 150
DefaultMargin == 10
\* transparency is held in percent (the dialog's slider unit): 1.0 is 100
DefaultTransparency == 100
DefaultColor == "#FFFFE0"

NoteStyle == [transparency |-> DefaultTransparency,
              backgroundColor |-> DefaultColor,
              margin |-> DefaultMargin]

Note == [id |-> InvalidId, status |-> StatusShown, filepath |-> "",
         position |-> <<DefaultPosX, DefaultPosY>>,
         size |-> <<DefaultWidth, DefaultHeight>>,
         style |-> NoteStyle]

isValid(n) == n.id # InvalidId

\* -------------------------------------------------------- databasemanager
SqlNull == "<NULL>"

styleToVariantMap(style) ==
    [transparency |-> style.transparency,
     backgroundColor |-> style.backgroundColor,
     margin |-> style.margin]

\* variant: the stored blob is not interpreted, every read gives the default style
styleFromVariantMap_defaults(map) == NoteStyle

styleFromVariantMap(map) ==
    [transparency |-> IF "transparency" \in DOMAIN map
                      THEN map.transparency ELSE DefaultTransparency,
     backgroundColor |-> IF "backgroundColor" \in DOMAIN map
                         THEN map.backgroundColor ELSE DefaultColor,
     margin |-> IF "margin" \in DOMAIN map THEN map.margin ELSE DefaultMargin]

\* the column values bound by addNote / updateNote for a note
BindRow(n) ==
    [status |-> n.status,
     filepath |-> IF n.filepath = "" THEN SqlNull ELSE n.filepath,
     position_x |-> n.position[1],
     position_y |-> n.position[2],
     size_width |-> n.size[1],
     size_height |-> n.size[2],
     style |-> styleToVariantMap(n.style)]

\* the note read back from a row by getNoteById / getAllNotes
ReadRow(id, r) ==
    [id |-> id,
     status |-> r.status,
     filepath |-> IF r.filepath = SqlNull THEN "" ELSE r.filepath,
     position |-> <<r.position_x, r.position_y>>,
     size |-> <<r.size_width, r.size_height>>,
     style |-> styleFromVariantMap(r.style)]

Max(a, b) == IF a >= b THEN a ELSE b

MaxOf(S) == IF S = {} THEN 0 ELSE CHOOSE x \in S : \A y \in S : y <= x

\* the k-th element of S in ascending order: the one with k - 1 smaller ones
Ascending(S, k) == CHOOSE x \in S : Cardinality({y \in S : y < x}) = k - 1

\* ------------------------------------------------------------------ QRectF
QRectF(x, y, w, h) == [x |-> x, y |-> y, w |-> w, h |-> h]

left(r) == r.x
top(r) == r.y
right(r) == r.x + r.w
bottom(r) == r.y + r.h

\* variant: the left edge is moved as moveLeft() would, carrying the rectangle along
setLeft_movesRect(r, pos) == [r EXCEPT !.x = pos]

setLeft(r, pos) == [r EXCEPT !.w = r.w + (r.x - pos), !.x = pos]
setTop(r, pos) == [r EXCEPT !.h = r.h + (r.y - pos), !.y = pos]
setRight(r, pos) == [r EXCEPT !.w = pos - r.x]
setBottom(r, pos) == [r EXCEPT !.h = pos - r.y]
setWidth(r, w) == [r EXCEPT !.w = w]
setHeight(r, h) == [r EXCEPT !.h = h]
\* variant: only the horizontal part of the displacement is applied
translate_horizontal(r, d) == [r EXCEPT !.x = r.x + d[1]]
translate(r, d) == [r EXCEPT !.x = r.x + d[1], !.y = r.y + d[2]]
adjusted(r, dx1, dy1, dx2, dy2) ==
    QRectF(r.x + dx1, r.y + dy1, r.w + dx2 - dx1, r.h + dy2 - dy1)

\* QRectF::contains(QPointF): edges included, a rectangle of no extent holds nothing
contains(r, p) ==
    LET l == IF r.w < 0 THEN r.x + r.w ELSE r.x
        rt == IF r.w < 0 THEN r.x ELSE r.x + r.w
        t == IF r.h < 0 THEN r.y + r.h ELSE r.y
        b == IF r.h < 0 THEN r.y ELSE r.y + r.h
    IN  /\ l # rt /\ t # b
        /\ l <= p[1] /\ p[1] <= rt
        /\ t <= p[2] /\ p[2] <= b

\* ------------------------------------------------- drag/resize mode, handles
HandleNone == "None"
HandleBody == "Body"
LeftHandles == {"TopLeft", "Left", "BottomLeft"}
TopHandles == {"TopLeft", "Top", "TopRight"}
RightHandles == {"TopRight", "Right", "BottomRight"}
BottomHandles == {"BottomLeft", "Bottom", "BottomRight"}
EdgeHandles == LeftHandles \cup TopHandles \cup RightHandles \cup BottomHandles
ResizeHandle == {HandleNone, HandleBody} \cup EdgeHandles

ResizeMargin == 10
MinWidth == 50
MinHeight == 30

\* variant: the edge strips are tested before the corner squares
HandleAt_edgesFirst(g, pos) ==
    LET m == ResizeMargin
    IN  IF contains(QRectF(left(g), top(g) + m, m, g.h - 2 * m), pos) THEN "Left"
        ELSE IF contains(QRectF(right(g) - m, top(g) + m, m, g.h - 2 * m), pos) THEN "Right"
        ELSE IF contains(QRectF(left(g) + m, top(g), g.w - 2 * m, m), pos) THEN "Top"
        ELSE IF contains(QRectF(left(g) + m, bottom(g) - m, g.w - 2 * m, m), pos) THEN "Bottom"
        ELSE IF contains(QRectF(left(g), top(g), m, m), pos) THEN "TopLeft"
        ELSE IF contains(QRectF(right(g) - m, top(g), m, m), pos) THEN "TopRight"
        ELSE IF contains(QRectF(left(g), bottom(g) - m, m, m), pos) THEN "BottomLeft"
        ELSE IF contains(QRectF(right(g) - m, bottom(g) - m, m, m), pos) THEN "BottomRight"
        ELSE IF contains(adjusted(g, m, m, -m, -m), pos) THEN HandleBody
        ELSE HandleNone

\* getResizeHandle(pos) while the mode is on, for an applet whose rect() is g
HandleAt(g, pos) ==
    LET m == ResizeMargin
    IN  IF contains(QRectF(left(g), top(g), m, m), pos) THEN "TopLeft"
        ELSE IF contains(QRectF(right(g) - m, top(g), m, m), pos) THEN "TopRight"
        ELSE IF contains(QRectF(left(g), bottom(g) - m, m, m), pos) THEN "BottomLeft"
        ELSE IF contains(QRectF(right(g) - m, bottom(g) - m, m, m), pos) THEN "BottomRight"
        ELSE IF contains(QRectF(left(g), top(g) + m, m, g.h - 2 * m), pos) THEN "Left"
        ELSE IF contains(QRectF(right(g) - m, top(g) + m, m, g.h - 2 * m), pos) THEN "Right"
        ELSE IF contains(QRectF(left(g) + m, top(g), g.w - 2 * m, m), pos) THEN "Top"
        ELSE IF contains(QRectF(left(g) + m, bottom(g) - m, g.w - 2 * m, m), pos) THEN "Bottom"
        ELSE IF contains(adjusted(g, m, m, -m, -m), pos) THEN HandleBody
        ELSE HandleNone

\* variant: the resize without its minimum-size check
newGeometry_unclamped(handle, orig, delta) ==
    IF handle = HandleBody THEN translate(orig, delta)
    ELSE LET g1 == IF handle \in LeftHandles THEN setLeft(orig, left(orig) + delta[1]) ELSE orig
             g2 == IF handle \in TopHandles THEN setTop(g1, top(orig) + delta[2]) ELSE g1
             g3 == IF handle \in RightHandles THEN setRight(g2, right(orig) + delta[1]) ELSE g2
         IN  IF handle \in BottomHandles THEN setBottom(g3, bottom(orig) + delta[2]) ELSE g3

\* mouseMoveEvent: the geometry requested for a handle, the geometry captured at
\* press and the pointer's displacement since the press
newGeometry(handle, orig, delta) ==
    IF handle = HandleBody THEN translate(orig, delta)
    ELSE LET g1 == IF handle \in LeftHandles THEN setLeft(orig, left(orig) + delta[1]) ELSE orig
             g2 == IF handle \in TopHandles THEN setTop(g1, top(orig) + delta[2]) ELSE g1
             g3 == IF handle \in RightHandles THEN setRight(g2, right(orig) + delta[1]) ELSE g2
             g4 == IF handle \in BottomHandles THEN setBottom(g3, bottom(orig) + delta[2]) ELSE g3
             g5 == IF g4.w < MinWidth THEN setWidth(g4, MinWidth) ELSE g4
         IN  IF g5.h < MinHeight THEN setHeight(g5, MinHeight) ELSE g5

VARIABLES
    rows,           \* the notes table: id -> column values
    seq,            \* sqlite_sequence of the AUTOINCREMENT key: largest id ever used
    avail,          \* the database file can be opened and statements execute
    m_db_isOpen,    \* per instance: DatabaseManager::m_db is open
    pc,             \* per instance: position in init()
    m_note,         \* per instance: DesktopNotesApplet::m_note
    allNotes,       \* per instance: initializeNewNote's listing
    adoptableNote,  \* per instance: initializeNewNote's candidate
    foundPending,   \* per instance: initializeNewNote's flag
    newId,          \* per instance: the id returned by addNote in initializeNewNote
    cfgNoteId,      \* per instance: the "noteId" entry of the applet's KConfigGroup
    cfgWrites,      \* per instance: number of writeConfig() calls made by this start-up
    call,           \* the last DatabaseManager call of the store client and its result
    issued,         \* ids returned by the client's successful addNote calls
    deleted,        \* ids of rows removed by the client's deleteNoteById calls
    m_dragResizeMode,               \* DesktopNotesApplet::m_dragResizeMode
    m_currentResizeHandle,          \* DesktopNotesApplet::m_currentResizeHandle
    m_dragStartPosition,            \* DesktopNotesApplet::m_dragStartPosition (screen)
    m_originalGeometryOnDragStart,  \* DesktopNotesApplet::m_originalGeometryOnDragStart
    geometry,       \* the applet's geometry()
    leftButton,     \* the left mouse button is held down
    gestures,       \* number of presses that started a drag
    resized,        \* a pointer move has resized the applet since the last such press
    updateCalls,    \* number of updateNote calls made by the applet's handlers
    dialogOpen,     \* a StylingDialog is executing
    m_originalStyle, \* StylingDialog::m_originalStyle
    viewBy,         \* the instance whose menu opened the AllNotesDialog, 0 when closed
    m_notes         \* NotesTableModel::m_notes of that dialog

vars == <<rows, seq, avail, m_db_isOpen, pc, m_note, allNotes, adoptableNote,
          foundPending, newId, cfgNoteId, cfgWrites, call, issued, deleted,
          m_dragResizeMode, m_currentResizeHandle, m_dragStartPosition,
          m_originalGeometryOnDragStart, geometry, leftButton, gestures, resized,
          updateCalls, dialogOpen, m_originalStyle, viewBy, m_notes>>

storeVars == <<rows, seq>>
localVars == <<allNotes, adoptableNote, foundPending, newId>>
startupVars == <<pc, m_note, localVars, cfgNoteId, cfgWrites>>
clientVars == <<call, issued, deleted>>
dialogVars == <<dialogOpen, m_originalStyle>>
viewVars == <<viewBy, m_notes>>
dragVars == <<m_dragResizeMode, m_currentResizeHandle, m_dragStartPosition,
              m_originalGeometryOnDragStart, leftButton, gestures, resized>>
mouseVars == <<dragVars, geometry, updateCalls, dialogVars>>

\* no DatabaseManager call has been recorded
NoCall == [op |-> "none"]

\* the applet as constructed: mode off, no handle, default-constructed members
MouseIdle ==
    /\ m_dragResizeMode = FALSE
    /\ m_currentResizeHandle = HandleNone
    /\ m_dragStartPosition = <<0, 0>>
    /\ m_originalGeometryOnDragStart = QRectF(0, 0, 0, 0)
    /\ geometry = QRectF(DefaultPosX, DefaultPosY, DefaultWidth, DefaultHeight)
    /\ leftButton = FALSE
    /\ gestures = 0
    /\ resized = FALSE
    /\ updateCalls = 0
    /\ dialogOpen = FALSE
    /\ m_originalStyle = NoteStyle
    /\ viewBy = 0
    /\ m_notes = << >>

\* variant: the key of the new row is not advanced past the largest id in use
NextRowId_reusesLargest == Max(seq, MaxOf(DOMAIN rows))

\* variant: a plain rowid key, one more than the largest id now in the table
NextRowId_plainRowid == MaxOf(DOMAIN rows) + 1

\* AUTOINCREMENT: one more than the largest id ever used in the table
NextRowId == Max(seq, MaxOf(DOMAIN rows)) + 1

\* the table after INSERT of note n
InsertRow(n) ==
    [k \in DOMAIN rows \cup {NextRowId} |->
        IF k = NextRowId THEN BindRow(n) ELSE rows[k]]

\* variant: INSERT OR REPLACE, which creates the row when no row has the id
UpdateRow_upsert(n) ==
    [k \in DOMAIN rows \cup {n.id} |-> IF k = n.id THEN BindRow(n) ELSE rows[k]]

\* the table after UPDATE ... WHERE id = n.id (full row replace, no status predicate)
UpdateRow(n) ==
    IF n.id \in DOMAIN rows THEN [rows EXCEPT ![n.id] = BindRow(n)] ELSE rows

\* openDb(): true when already open, else the result of opening the file
openDb(i) == m_db_isOpen[i] \/ avail

\* variant: a CRUD call executes only on a database that is already open
ExecOk_alreadyOpen(i) == m_db_isOpen[i] /\ avail

\* every CRUD call opens the database first when it is not open, then executes
ExecOk(i) == openDb(i) /\ avail

AfterOpen(i) == [m_db_isOpen EXCEPT ![i] = openDb(i)]

\* variant: the listing in descending rowid order
getAllNotes_descending(i) ==
    IF ~ExecOk(i) THEN << >>
    ELSE [k \in 1..Cardinality(DOMAIN rows) |->
            LET id == Ascending(DOMAIN rows, Cardinality(DOMAIN rows) + 1 - k)
            IN  ReadRow(id, rows[id])]

\* getAllNotes(): SELECT without ORDER BY over the rowid table, or the empty list
getAllNotes(i) ==
    IF ~ExecOk(i) THEN << >>
    ELSE [k \in 1..Cardinality(DOMAIN rows) |->
            LET id == Ascending(DOMAIN rows, k)
            IN  ReadRow(id, rows[id])]

\* getNoteById(): the row, or a default (invalid) note
getNoteById(i, id) ==
    IF ExecOk(i) /\ id \in DOMAIN rows THEN ReadRow(id, rows[id]) ELSE Note

\* ------------------------------------------------------ desktopnotesapplet
\* variant: the scan loop without its break keeps the last pending note
FirstPending_noBreak(list) ==
    LET idx == {k \in 1..Len(list) : list[k].status = StatusPending}
    IN  IF idx = {} THEN 0 ELSE CHOOSE k \in idx : \A l \in idx : l <= k

\* the scan loop of initializeNewNote: index of the first pending note, 0 if none
FirstPending(list) ==
    LET idx == {k \in 1..Len(list) : list[k].status = StatusPending}
    IN  IF idx = {} THEN 0 ELSE CHOOSE k \in idx : \A l \in idx : k <= l

\* writeConfig(): persist m_note.id into the applet's config group
writeConfig(i, id) ==
    /\ cfgNoteId' = [cfgNoteId EXCEPT ![i] = id]
    /\ cfgWrites' = [cfgWrites EXCEPT ![i] = @ + 1]

\* variant: the tail of initializeNewNote without its isValid() check
FinishInitialize_unchecked(i, id) == writeConfig(i, id)

\* the tail of initializeNewNote: writeConfig when the note is valid
FinishInitialize(i, id) ==
    IF id # InvalidId THEN writeConfig(i, id)
    ELSE UNCHANGED <<cfgNoteId, cfgWrites>>

\* handleAddNewNote places the pending note right of its source widget
AddNoteSpacing == 15
PendingPosX == DefaultPosX + DefaultWidth + AddNoteSpacing

TypeOK ==
    /\ avail \in BOOLEAN
    /\ seq \in Nat
    /\ \A k \in DOMAIN rows : k \in 1..seq /\ rows[k].status \in Statuses
    /\ \A i \in Inst : pc[i] \in {"start", "claim", "fallback", "create", "load", "done",
                                 "hidden", "removed"}

\* a stored row as the program writes it: a default note, or the pending note of
\* handleAddNewNote placed next to its source widget
InitRow(st) ==
    BindRow([Note EXCEPT !.status = st,
                         !.position = IF st = StatusPending
                                      THEN <<PendingPosX, DefaultPosY>>
                                      ELSE <<DefaultPosX, DefaultPosY>>])

Init ==
    /\ \E ids \in SUBSET (1..MaxInitId) :
         /\ \E st \in [ids -> Statuses] : rows = [k \in ids |-> InitRow(st[k])]
         /\ seq \in MaxOf(ids)..MaxInitId
    /\ avail \in BOOLEAN
    /\ m_db_isOpen = [i \in Inst |-> avail]
    /\ pc = [i \in Inst |-> "start"]
    \* readConfig() has restored the remembered id; no two applets share one
    /\ cfgNoteId \in [Inst -> {InvalidId} \cup (1..MaxInitId)]
    /\ \A i, j \in Inst : i # j /\ cfgNoteId[i] # InvalidId => cfgNoteId[i] # cfgNoteId[j]
    \* instances are interchangeable: the ones with a remembered id are numbered
    \* first, by ascending id
    /\ \A i, j \in Inst : i < j /\ cfgNoteId[j] # InvalidId
            => cfgNoteId[i] # InvalidId /\ cfgNoteId[i] < cfgNoteId[j]
    /\ \A i \in Inst : cfgNoteId[i] # InvalidId => cfgNoteId[i] <= seq
    \* a pending note has no owner yet: it is nobody's remembered id
    /\ \A i \in Inst : cfgNoteId[i] \in DOMAIN rows => rows[cfgNoteId[i]].status # StatusPending
    /\ m_note = [i \in Inst |-> [Note EXCEPT !.id = cfgNoteId[i]]]
    /\ allNotes = [i \in Inst |-> << >>]
    /\ adoptableNote = [i \in Inst |-> Note]
    /\ foundPending = [i \in Inst |-> FALSE]
    /\ newId = [i \in Inst |-> InvalidId]
    /\ cfgWrites = [i \in Inst |-> 0]
    /\ call = NoCall
    /\ issued = {}
    /\ deleted = {}
    /\ MouseIdle

\* variant: init() runs initializeNewNote whatever readConfig restored
init_needsNewNote_always(i) == TRUE

\* init(): initializeNewNote runs only when no id was remembered
init_needsNewNote(i) == ~isValid(m_note[i])

\* initializeNewNote lists the notes and scans for the first pending one
initializeNewNote_getAllNotes(i) ==
    /\ pc[i] = "start"
    /\ init_needsNewNote(i)
    /\ LET list == getAllNotes(i)
           k == FirstPending(list)
       IN  /\ allNotes' = [allNotes EXCEPT ![i] = list]
           /\ foundPending' = [foundPending EXCEPT ![i] = (k # 0)]
           /\ IF k # 0
              THEN /\ adoptableNote' = [adoptableNote EXCEPT ![i] = list[k]]
                   /\ m_note' = [m_note EXCEPT ![i] = [list[k] EXCEPT !.status = StatusShown]]
                   /\ pc' = [pc EXCEPT ![i] = "claim"]
              ELSE /\ m_note' = [m_note EXCEPT ![i] = Note]
                   /\ pc' = [pc EXCEPT ![i] = "create"]
                   /\ UNCHANGED adoptableNote
    /\ m_db_isOpen' = AfterOpen(i)
    /\ UNCHANGED <<storeVars, avail, newId, cfgNoteId, cfgWrites, clientVars, viewVars, mouseVars>>

\* variant: the adoption write goes through only while the row is still pending,
\* and is awaited otherwise
AdoptionReportedOk_awaitsPending(i) ==
    /\ m_note[i].id \in DOMAIN rows
    /\ rows[m_note[i].id].status = StatusPending
    /\ rows' = UpdateRow(m_note[i])
    /\ writeConfig(i, m_note[i].id)
    /\ pc' = [pc EXCEPT ![i] = "load"]
    /\ UNCHANGED m_note

\* updateNote returned true: the id is kept and persisted by writeConfig
AdoptionReportedOk(i) ==
    /\ rows' = UpdateRow(m_note[i])
    /\ writeConfig(i, m_note[i].id)
    /\ pc' = [pc EXCEPT ![i] = "load"]
    /\ UNCHANGED m_note

\* variant: a failed adoption write ends the resolution without the fallback create
AdoptionFailed_givesUp(i) ==
    /\ m_note' = [m_note EXCEPT ![i] = Note]
    /\ pc' = [pc EXCEPT ![i] = "load"]
    /\ UNCHANGED <<rows, cfgNoteId, cfgWrites>>

\* updateNote returned false: m_note is reset and a brand new note is created next
AdoptionFailed(i) ==
    /\ m_note' = [m_note EXCEPT ![i] = Note]
    /\ pc' = [pc EXCEPT ![i] = "fallback"]
    /\ UNCHANGED <<rows, cfgNoteId, cfgWrites>>

\* the adoption write: updateNote(m_note) with status "shown"
initializeNewNote_updateNote(i) ==
    /\ pc[i] = "claim"
    /\ m_db_isOpen' = AfterOpen(i)
    /\ IF ExecOk(i) THEN AdoptionReportedOk(i) ELSE AdoptionFailed(i)
    /\ UNCHANGED <<seq, avail, localVars, clientVars, viewVars, mouseVars>>

\* addNote(m_note) of a default note: the row is inserted and its id returned, or
\* nothing is stored and -1 returned
addNote_default(i) ==
    /\ m_db_isOpen' = AfterOpen(i)
    /\ IF ExecOk(i)
       THEN /\ rows' = InsertRow(m_note[i])
            /\ seq' = NextRowId
            /\ newId' = [newId EXCEPT ![i] = NextRowId]
       ELSE /\ newId' = [newId EXCEPT ![i] = InvalidId]
            /\ UNCHANGED <<rows, seq>>

\* the adoption write failed: fall back to a brand new note, keep its id when
\* there is one, then the tail of initializeNewNote
initializeNewNote_fallback(i) ==
    /\ pc[i] = "fallback"
    /\ addNote_default(i)
    /\ m_note' = [m_note EXCEPT ![i].id =
                    IF newId'[i] # InvalidId THEN newId'[i] ELSE @]
    /\ FinishInitialize(i, m_note'[i].id)
    /\ pc' = [pc EXCEPT ![i] = "load"]
    /\ UNCHANGED <<avail, allNotes, adoptableNote, foundPending, clientVars, viewVars, mouseVars>>

\* no pending note was found: create a brand new note; a failed create returns
\* early with m_note left invalid
initializeNewNote_addNote(i) ==
    /\ pc[i] = "create"
    /\ addNote_default(i)
    /\ IF newId'[i] # InvalidId
       THEN /\ m_note' = [m_note EXCEPT ![i].id = newId'[i]]
            /\ FinishInitialize(i, m_note'[i].id)
       ELSE UNCHANGED <<m_note, cfgNoteId, cfgWrites>>
    /\ pc' = [pc EXCEPT ![i] = "load"]
    /\ UNCHANGED <<avail, allNotes, adoptableNote, foundPending, clientVars, viewVars, mouseVars>>

\* variant: a start-up left without a valid note runs the resolution again
init_loadNoteData_retries(i) ==
    /\ pc[i] = "load"
    /\ pc' = [pc EXCEPT ![i] = IF isValid(m_note[i]) THEN "done" ELSE "start"]
    /\ UNCHANGED <<storeVars, avail, m_db_isOpen, m_note, localVars, cfgNoteId, cfgWrites, clientVars, viewVars, mouseVars>>

\* init() after initializeNewNote (skipped for a remembered id): openDb(), then
\* loadNoteData() refreshes m_note from the row of its id
init_loadNoteData(i) ==
    /\ \/ pc[i] = "load"
       \/ pc[i] = "start" /\ ~init_needsNewNote(i)
    /\ m_db_isOpen' = AfterOpen(i)
    /\ IF ~isValid(m_note[i])
       THEN UNCHANGED m_note
       ELSE LET dbNote == getNoteById(i, m_note[i].id)
            IN  m_note' = [m_note EXCEPT ![i] =
                     IF isValid(dbNote) THEN dbNote
                     ELSE [m_note[i] EXCEPT !.filepath = ""]]
    \* the locals of initializeNewNote are gone once init() has moved on
    /\ allNotes' = [allNotes EXCEPT ![i] = << >>]
    /\ adoptableNote' = [adoptableNote EXCEPT ![i] = Note]
    /\ foundPending' = [foundPending EXCEPT ![i] = FALSE]
    /\ newId' = [newId EXCEPT ![i] = InvalidId]
    /\ pc' = [pc EXCEPT ![i] = "done"]
    /\ UNCHANGED <<storeVars, avail, cfgNoteId, cfgWrites, clientVars, viewVars, mouseVars>>

\* the storage medium becomes unusable (file locked, disk error) or usable again
StoreFails ==
    /\ avail
    /\ avail' = FALSE
    /\ UNCHANGED <<storeVars, m_db_isOpen, startupVars, clientVars, viewVars, mouseVars>>

StoreRecovers ==
    /\ ~avail
    /\ avail' = TRUE
    /\ UNCHANGED <<storeVars, m_db_isOpen, startupVars, clientVars, viewVars, mouseVars>>

InstNext(i) ==
    \/ initializeNewNote_getAllNotes(i)
    \/ initializeNewNote_updateNote(i)
    \/ initializeNewNote_fallback(i)
    \/ initializeNewNote_addNote(i)
    \/ init_loadNoteData(i)

Next ==
    \/ \E i \in Inst : InstNext(i)
    \/ StoreFails
    \/ StoreRecovers

Spec == Init /\ [][Next]_vars

\* each instance is a running process: its next start-up step is eventually taken
LiveSpec == Spec /\ \A i \in Inst : WF_vars(InstNext(i))

\* ------------------------------------------- the store contract, one client
\* The DatabaseManager singleton of one process, called with arbitrary arguments.
Client == CHOOSE i \in Inst : \A j \in Inst : i <= j

StatusArchived == "archived"

CustomStyle == [transparency |-> 80, backgroundColor |-> "#ABCDEF", margin |-> 4]

\* the notes handed to addNote / updateNote: the default note, a note with every
\* field set by its owner, and a note whose status is not one of the three the
\* program names
InputNotes ==
    { Note,
      [Note EXCEPT !.status = StatusHidden, !.filepath = "/home/u/todo.md",
                   !.position = <<300, 100>>, !.size = <<320, 240>>,
                   !.style = CustomStyle],
      [Note EXCEPT !.status = StatusArchived] }

\* the statuses handed to setNoteStatus
InputStatuses == {StatusShown, StatusHidden, StatusArchived}

InputIds == 1..MaxRowId

\* variant: the DELETE without its WHERE clause
DeleteRow_everyRow(id) == << >>

\* the table after DELETE ... WHERE id = :id
DeleteRow(id) == [k \in DOMAIN rows \ {id} |-> rows[k]]

\* variant: the status write replaces the whole row by a default note's columns
SetStatusRow_fullReplace(id, status) ==
    IF id \in DOMAIN rows
    THEN [rows EXCEPT ![id] = BindRow([Note EXCEPT !.status = status])]
    ELSE rows

\* the table after UPDATE notes SET status = :status WHERE id = :id
SetStatusRow(id, status) ==
    IF id \in DOMAIN rows THEN [rows EXCEPT ![id].status = status] ELSE rows

StoreInit ==
    /\ rows = << >>
    /\ seq = 0
    /\ avail \in BOOLEAN
    \* instance() has attempted openDb() once
    /\ m_db_isOpen = [i \in Inst |-> i = Client /\ avail]
    /\ pc = [i \in Inst |-> "done"]
    /\ m_note = [i \in Inst |-> Note]
    /\ allNotes = [i \in Inst |-> << >>]
    /\ adoptableNote = [i \in Inst |-> Note]
    /\ foundPending = [i \in Inst |-> FALSE]
    /\ newId = [i \in Inst |-> InvalidId]
    /\ cfgNoteId = [i \in Inst |-> InvalidId]
    /\ cfgWrites = [i \in Inst |-> 0]
    /\ call = NoCall
    /\ issued = {}
    /\ deleted = {}
    /\ MouseIdle

\* the call finds m_db closed and opens it
Opens(i) == ~m_db_isOpen[i] /\ avail

DatabaseManager_openDb(i) ==
    /\ call' = [op |-> "openDb", ret |-> openDb(i)]
    /\ m_db_isOpen' = AfterOpen(i)
    /\ UNCHANGED <<storeVars, avail, startupVars, mouseVars, viewVars, issued, deleted>>

DatabaseManager_addNote(i, noteData) ==
    /\ NextRowId <= MaxRowId
    /\ m_db_isOpen' = AfterOpen(i)
    /\ IF ExecOk(i)
       THEN /\ rows' = InsertRow(noteData)
            /\ seq' = NextRowId
            /\ call' = [op |-> "addNote", opened |-> Opens(i), arg |-> noteData, ret |-> NextRowId]
            /\ issued' = issued \cup {NextRowId}
       ELSE /\ call' = [op |-> "addNote", opened |-> Opens(i), arg |-> noteData, ret |-> InvalidId]
            /\ UNCHANGED <<rows, seq, issued>>
    /\ UNCHANGED <<avail, startupVars, mouseVars, viewVars, deleted>>

DatabaseManager_updateNote(i, noteData) ==
    /\ IF noteData.id = InvalidId
       THEN /\ call' = [op |-> "updateNote", opened |-> Opens(i), arg |-> noteData, ret |-> FALSE]
            /\ UNCHANGED <<rows, m_db_isOpen>>
       ELSE /\ m_db_isOpen' = AfterOpen(i)
            /\ rows' = IF ExecOk(i) THEN UpdateRow(noteData) ELSE rows
            /\ call' = [op |-> "updateNote", opened |-> Opens(i), arg |-> noteData, ret |-> ExecOk(i)]
    /\ UNCHANGED <<seq, avail, startupVars, mouseVars, viewVars, issued, deleted>>

DatabaseManager_getNoteById(i, id) ==
    /\ call' = [op |-> "getNoteById", opened |-> Opens(i), arg |-> id, ret |-> getNoteById(i, id)]
    /\ m_db_isOpen' = AfterOpen(i)
    /\ UNCHANGED <<storeVars, avail, startupVars, mouseVars, viewVars, issued, deleted>>

DatabaseManager_getAllNotes(i) ==
    /\ call' = [op |-> "getAllNotes", opened |-> Opens(i), ret |-> getAllNotes(i)]
    /\ m_db_isOpen' = AfterOpen(i)
    /\ UNCHANGED <<storeVars, avail, startupVars, mouseVars, viewVars, issued, deleted>>

DatabaseManager_deleteNoteById(i, id) ==
    /\ m_db_isOpen' = AfterOpen(i)
    /\ rows' = IF ExecOk(i) THEN DeleteRow(id) ELSE rows
    /\ deleted' = IF ExecOk(i) /\ id \in DOMAIN rows THEN deleted \cup {id} ELSE deleted
    /\ call' = [op |-> "deleteNoteById", opened |-> Opens(i), arg |-> id, ret |-> ExecOk(i)]
    /\ UNCHANGED <<seq, avail, startupVars, mouseVars, viewVars, issued>>

DatabaseManager_setNoteStatus(i, id, status) ==
    /\ m_db_isOpen' = AfterOpen(i)
    /\ rows' = IF ExecOk(i) THEN SetStatusRow(id, status) ELSE rows
    /\ call' = [op |-> "setNoteStatus", opened |-> Opens(i), arg |-> <<id, status>>, ret |-> ExecOk(i)]
    /\ UNCHANGED <<seq, avail, startupVars, mouseVars, viewVars, issued, deleted>>

StoreNext ==
    \/ DatabaseManager_openDb(Client)
    \/ \E n \in InputNotes : DatabaseManager_addNote(Client, n)
    \/ \E n \in InputNotes, id \in InputIds \cup {InvalidId} :
          DatabaseManager_updateNote(Client, [n EXCEPT !.id = id])
    \/ \E id \in InputIds : DatabaseManager_getNoteById(Client, id)
    \/ DatabaseManager_getAllNotes(Client)
    \/ \E id \in InputIds : DatabaseManager_deleteNoteById(Client, id)
    \/ \E id \in InputIds, status \in InputStatuses :
          DatabaseManager_setNoteStatus(Client, id, status)
    \/ StoreFails
    \/ StoreRecovers

StoreSpec == StoreInit /\ [][StoreNext]_vars

\* ------------------------------------- drag/resize interaction, one applet
\* Coordinates are whole pixels, on which toPoint() and toSize() are exact; the
\* applet's parent coordinates are the screen's.
SelectableFile == "/home/u/todo.md"

\* geometries the containment may have given the applet before the gesture
StartGeometries == {QRectF(100, 100, 200, 150), QRectF(0, 0, 40, 20)}

\* pointer displacements since the press: far and near, in every direction
Deltas == {<<-1000, -1000>>, <<1000, 1000>>, <<-1000, 1000>>, <<30, -1000>>, <<30, 30>>}

\* local positions of a press: inside each margin strip, the middle, and outside
PressPoints(g) ==
    LET xs == {ResizeMargin \div 2, g.w \div 2, g.w - ResizeMargin \div 2,
               g.w + ResizeMargin \div 2}
        ys == {ResizeMargin \div 2, g.h \div 2, g.h - ResizeMargin \div 2,
               g.h + ResizeMargin \div 2}
    IN  xs \X ys

\* rect(): the applet's geometry in its own coordinates
rect == QRectF(0, 0, geometry.w, geometry.h)

getResizeHandle(pos) ==
    IF ~m_dragResizeMode THEN HandleNone ELSE HandleAt(rect, pos)

MouseInit ==
    /\ rows = [k \in {1} |-> InitRow(StatusShown)]
    /\ seq = 1
    /\ avail \in BOOLEAN
    /\ m_db_isOpen = [i \in Inst |-> i = Client /\ avail]
    /\ pc = [i \in Inst |-> "done"]
    /\ m_note = [i \in Inst |-> IF i = Client THEN [Note EXCEPT !.id = 1] ELSE Note]
    /\ allNotes = [i \in Inst |-> << >>]
    /\ adoptableNote = [i \in Inst |-> Note]
    /\ foundPending = [i \in Inst |-> FALSE]
    /\ newId = [i \in Inst |-> InvalidId]
    /\ cfgNoteId = [i \in Inst |-> IF i = Client THEN 1 ELSE InvalidId]
    /\ cfgWrites = [i \in Inst |-> 0]
    /\ call = NoCall
    /\ issued = {}
    /\ deleted = {}
    /\ m_dragResizeMode = FALSE
    /\ m_currentResizeHandle = HandleNone
    /\ m_dragStartPosition = <<0, 0>>
    /\ m_originalGeometryOnDragStart = QRectF(0, 0, 0, 0)
    /\ geometry \in StartGeometries
    /\ leftButton = FALSE
    /\ gestures = 0
    /\ resized = FALSE
    /\ updateCalls = 0
    /\ dialogOpen = FALSE
    /\ m_originalStyle = NoteStyle
    /\ viewBy = 0
    /\ m_notes = << >>

\* variant: nothing is saved
saveNoteData_skipped(i, note) == UNCHANGED <<rows, m_db_isOpen, updateCalls>>

\* variant: updateNote is called whatever the id of the note
saveNoteData_unchecked(i, note) ==
    /\ m_db_isOpen' = AfterOpen(i)
    /\ rows' = IF ExecOk(i) THEN UpdateRow(note) ELSE rows
    /\ updateCalls' = updateCalls + 1

\* saveNoteData(): updateNote(m_note) when the note is valid; a failure is logged
saveNoteData(i, note) ==
    IF ~isValid(note)
    THEN UNCHANGED <<rows, m_db_isOpen, updateCalls>>
    ELSE /\ m_db_isOpen' = AfterOpen(i)
         /\ rows' = IF ExecOk(i) THEN UpdateRow(note) ELSE rows
         /\ updateCalls' = updateCalls + 1

\* handleSelectFile(): the file dialog is cancelled, or a file is chosen and saved
handleSelectFile(i) ==
    \E chosen \in {"", SelectableFile} :
        IF chosen = ""
        THEN UNCHANGED <<m_note, rows, m_db_isOpen, updateCalls>>
        ELSE /\ m_note' = [m_note EXCEPT ![i].filepath = chosen]
             /\ saveNoteData(i, m_note'[i])

\* quickLeftClickAction() outside the mode: select a file when none is bound, else
\* start the editor process
quickLeftClickAction(i) ==
    IF m_note[i].filepath = ""
    THEN handleSelectFile(i)
    ELSE UNCHANGED <<m_note, rows, m_db_isOpen, updateCalls>>

handleDragResize ==
    /\ m_dragResizeMode' = ~m_dragResizeMode
    /\ UNCHANGED <<storeVars, avail, m_db_isOpen, startupVars, clientVars, viewVars,
                   m_currentResizeHandle, m_dragStartPosition,
                   m_originalGeometryOnDragStart, geometry, leftButton, gestures,
                   resized, updateCalls, dialogVars>>

\* mousePressEvent with the left button at local position pos
mousePressEvent(i, pos) ==
    /\ ~leftButton
    /\ leftButton' = TRUE
    /\ IF m_dragResizeMode
       THEN /\ m_currentResizeHandle' = getResizeHandle(pos)
            /\ IF m_currentResizeHandle' # HandleNone
               THEN /\ gestures < MaxGestures
                    /\ m_dragStartPosition' = <<geometry.x + pos[1], geometry.y + pos[2]>>
                    /\ m_originalGeometryOnDragStart' = geometry
                    /\ gestures' = gestures + 1
                    /\ resized' = FALSE
               ELSE UNCHANGED <<m_dragStartPosition, m_originalGeometryOnDragStart,
                                gestures, resized>>
            /\ UNCHANGED <<m_note, rows, m_db_isOpen, updateCalls>>
       ELSE /\ quickLeftClickAction(i)
            /\ UNCHANGED <<m_currentResizeHandle, m_dragStartPosition,
                           m_originalGeometryOnDragStart, gestures, resized>>
    /\ UNCHANGED <<seq, avail, pc, localVars, cfgNoteId, cfgWrites, clientVars, viewVars,
                   m_dragResizeMode, geometry, dialogVars>>

\* variant: each move is applied to the geometry the applet has at that moment
mouseMoveEvent_fromLiveGeometry(screenPos) ==
    /\ leftButton
    /\ IF m_dragResizeMode /\ m_currentResizeHandle # HandleNone
       THEN LET delta == <<screenPos[1] - m_dragStartPosition[1],
                           screenPos[2] - m_dragStartPosition[2]>>
            IN  /\ geometry' = newGeometry(m_currentResizeHandle, geometry, delta)
                /\ resized' = (resized \/ m_currentResizeHandle # HandleBody)
       ELSE UNCHANGED <<geometry, resized>>
    /\ UNCHANGED <<storeVars, avail, m_db_isOpen, startupVars, clientVars, viewVars,
                   m_dragResizeMode, m_currentResizeHandle, m_dragStartPosition,
                   m_originalGeometryOnDragStart, leftButton, gestures, updateCalls,
                   dialogVars>>

\* mouseMoveEvent with the left button held and the pointer at screenPos
mouseMoveEvent(screenPos) ==
    /\ leftButton
    /\ IF m_dragResizeMode /\ m_currentResizeHandle # HandleNone
       THEN LET delta == <<screenPos[1] - m_dragStartPosition[1],
                           screenPos[2] - m_dragStartPosition[2]>>
            IN  /\ geometry' = newGeometry(m_currentResizeHandle,
                                           m_originalGeometryOnDragStart, delta)
                /\ resized' = (resized \/ m_currentResizeHandle # HandleBody)
       ELSE UNCHANGED <<geometry, resized>>
    /\ UNCHANGED <<storeVars, avail, m_db_isOpen, startupVars, clientVars, viewVars,
                   m_dragResizeMode, m_currentResizeHandle, m_dragStartPosition,
                   m_originalGeometryOnDragStart, leftButton, gestures, updateCalls,
                   dialogVars>>

\* variant: the handle stays active after the commit
mouseReleaseEvent_keepsHandle(i) ==
    /\ leftButton
    /\ leftButton' = FALSE
    /\ IF m_dragResizeMode /\ m_currentResizeHandle # HandleNone
       THEN /\ m_note' = [m_note EXCEPT ![i].position = <<geometry.x, geometry.y>>,
                                        ![i].size = <<geometry.w, geometry.h>>]
            /\ saveNoteData(i, m_note'[i])
       ELSE UNCHANGED <<m_note, rows, m_db_isOpen, updateCalls>>
    /\ UNCHANGED <<seq, avail, pc, localVars, cfgNoteId, cfgWrites, clientVars, viewVars,
                   m_dragResizeMode, m_currentResizeHandle, m_dragStartPosition,
                   m_originalGeometryOnDragStart, geometry, gestures, resized,
                   dialogVars>>

\* variant: the geometry reaches m_note only when the store took it
mouseReleaseEvent_dropsFailedCommit(i) ==
    /\ leftButton
    /\ leftButton' = FALSE
    /\ IF m_dragResizeMode /\ m_currentResizeHandle # HandleNone
       THEN /\ m_note' = IF ExecOk(i)
                         THEN [m_note EXCEPT ![i].position = <<geometry.x, geometry.y>>,
                                             ![i].size = <<geometry.w, geometry.h>>]
                         ELSE m_note
            /\ saveNoteData(i, [m_note[i] EXCEPT !.position = <<geometry.x, geometry.y>>,
                                                 !.size = <<geometry.w, geometry.h>>])
            /\ m_currentResizeHandle' = HandleNone
       ELSE UNCHANGED <<m_note, rows, m_db_isOpen, m_currentResizeHandle, updateCalls>>
    /\ UNCHANGED <<seq, avail, pc, localVars, cfgNoteId, cfgWrites, clientVars, viewVars,
                   m_dragResizeMode, m_dragStartPosition,
                   m_originalGeometryOnDragStart, geometry, gestures, resized,
                   dialogVars>>

\* mouseReleaseEvent of the left button: commit the geometry when a handle is active
mouseReleaseEvent(i) ==
    /\ leftButton
    /\ leftButton' = FALSE
    /\ IF m_dragResizeMode /\ m_currentResizeHandle # HandleNone
       THEN /\ m_note' = [m_note EXCEPT ![i].position = <<geometry.x, geometry.y>>,
                                        ![i].size = <<geometry.w, geometry.h>>]
            /\ saveNoteData(i, m_note'[i])
            /\ m_currentResizeHandle' = HandleNone
       ELSE UNCHANGED <<m_note, rows, m_db_isOpen, m_currentResizeHandle, updateCalls>>
    /\ UNCHANGED <<seq, avail, pc, localVars, cfgNoteId, cfgWrites, clientVars, viewVars,
                   m_dragResizeMode, m_dragStartPosition,
                   m_originalGeometryOnDragStart, geometry, gestures, resized,
                   dialogVars>>

MouseNext ==
    \/ handleDragResize
    \/ \E pos \in PressPoints(geometry) : mousePressEvent(Client, pos)
    \/ \E d \in Deltas :
          mouseMoveEvent(<<m_dragStartPosition[1] + d[1], m_dragStartPosition[2] + d[2]>>)
    \/ mouseReleaseEvent(Client)
    \/ StoreFails
    \/ StoreRecovers

MouseSpec == MouseInit /\ [][MouseNext]_vars

\* ------------------------------------------- context-menu actions, one applet
\* values the user gives the dialog's controls
TransparencyValues == {0, 80}
MarginValues == {0, 4}
ChosenColor == "#ABCDEF"

MenuInit ==
    /\ rows = [k \in {1} |-> InitRow(StatusShown)]
    /\ seq = 1
    /\ avail \in BOOLEAN
    /\ m_db_isOpen = [i \in Inst |-> i = Client /\ avail]
    /\ pc = [i \in Inst |-> "done"]
    /\ \E resolved \in BOOLEAN :
          /\ m_note = [i \in Inst |-> IF i = Client /\ resolved
                                      THEN [Note EXCEPT !.id = 1] ELSE Note]
          /\ cfgNoteId = [i \in Inst |-> IF i = Client /\ resolved
                                         THEN 1 ELSE InvalidId]
    /\ allNotes = [i \in Inst |-> << >>]
    /\ adoptableNote = [i \in Inst |-> Note]
    /\ foundPending = [i \in Inst |-> FALSE]
    /\ newId = [i \in Inst |-> InvalidId]
    /\ cfgWrites = [i \in Inst |-> 0]
    /\ call = NoCall
    /\ issued = {}
    /\ deleted = {}
    /\ m_dragResizeMode = FALSE
    /\ m_currentResizeHandle = HandleNone
    /\ m_dragStartPosition = <<0, 0>>
    /\ m_originalGeometryOnDragStart = QRectF(0, 0, 0, 0)
    /\ geometry \in StartGeometries
    /\ leftButton = FALSE
    /\ gestures = 0
    /\ resized = FALSE
    /\ updateCalls = 0
    /\ dialogOpen = FALSE
    /\ m_originalStyle = NoteStyle
    /\ viewBy = 0
    /\ m_notes = << >>

\* what a context-menu handler and the dialog's slots never touch
menuFrame == <<pc, localVars, cfgNoteId, cfgWrites, clientVars, viewVars, dragVars, geometry>>

\* handleStyling() up to dialog.exec(): nothing for an invalid note, else the dialog
\* is constructed on m_note.style and keeps a copy of it
handleStyling(i) ==
    /\ ~dialogOpen
    /\ updateCalls < MaxSaves
    /\ IF ~isValid(m_note[i])
       THEN UNCHANGED dialogVars
       ELSE /\ dialogOpen' = TRUE
            /\ m_originalStyle' = m_note[i].style
    /\ UNCHANGED <<storeVars, avail, m_db_isOpen, m_note, updateCalls, menuFrame>>

\* a slot that edits the style through the dialog's reference to m_note.style
LiveEdit(i, style) ==
    /\ dialogOpen
    /\ m_note' = [m_note EXCEPT ![i].style = style]
    /\ UNCHANGED <<storeVars, avail, m_db_isOpen, updateCalls, dialogVars, menuFrame>>

onTransparencyChanged(i, value) ==
    LiveEdit(i, [m_note[i].style EXCEPT !.transparency = value])

onMarginChanged(i, value) ==
    LiveEdit(i, [m_note[i].style EXCEPT !.margin = value])

\* onChooseColorClicked(): the colour dialog is accepted with a colour, or cancelled
onChooseColorClicked(i) ==
    \E accepted \in BOOLEAN :
        LiveEdit(i, IF accepted
                    THEN [m_note[i].style EXCEPT !.backgroundColor = ChosenColor]
                    ELSE m_note[i].style)

\* the OK button: acceptDialog(), then handleStyling() saves the note
acceptDialog(i) ==
    /\ dialogOpen
    /\ dialogOpen' = FALSE
    /\ m_originalStyle' = NoteStyle
    /\ saveNoteData(i, m_note[i])
    /\ UNCHANGED <<seq, avail, m_note, menuFrame>>

\* the Cancel button: rejectDialog() puts the copy back, handleStyling() saves nothing
rejectDialog(i) ==
    /\ dialogOpen
    /\ dialogOpen' = FALSE
    /\ m_originalStyle' = NoteStyle
    /\ m_note' = [m_note EXCEPT ![i].style = m_originalStyle]
    /\ UNCHANGED <<storeVars, avail, m_db_isOpen, updateCalls, menuFrame>>

\* the Escape key or the window's close button: QDialog::reject() itself, to which
\* rejectDialog() is not connected; exec() returns Rejected
QDialog_reject(i) ==
    /\ dialogOpen
    /\ dialogOpen' = FALSE
    /\ m_originalStyle' = NoteStyle
    /\ UNCHANGED <<storeVars, avail, m_db_isOpen, m_note, updateCalls, menuFrame>>

\* the note handleAddNewNote() inserts first: a default one next to this applet
newNote == [Note EXCEPT !.position = <<right(geometry) + AddNoteSpacing, top(geometry)>>]

\* the note handleAddNewNote() inserts second, for a new applet to adopt
pendingNote == [newNote EXCEPT !.status = StatusPending]

\* handleAddNewNote(): addNote(newNote) and, when that succeeded, addNote(pendingNote);
\* the store may stop executing statements between the two
handleAddNewNote(i) ==
    /\ ~dialogOpen
    /\ NextRowId + 1 <= MaxRowId
    /\ m_db_isOpen' = AfterOpen(i)
    /\ IF ExecOk(i)
       THEN \E secondOk \in BOOLEAN :
               /\ avail' = secondOk
               /\ seq' = IF secondOk THEN NextRowId + 1 ELSE NextRowId
               /\ rows' = [k \in DOMAIN rows \cup
                                 (IF secondOk THEN {NextRowId, NextRowId + 1}
                                  ELSE {NextRowId}) |->
                              IF k = NextRowId THEN BindRow(newNote)
                              ELSE IF k = NextRowId + 1 THEN BindRow(pendingNote)
                              ELSE rows[k]]
       ELSE UNCHANGED <<rows, seq, avail>>
    /\ UNCHANGED <<m_note, updateCalls, dialogVars, menuFrame>>

MenuNext ==
    \/ handleStyling(Client)
    \/ \E value \in TransparencyValues : onTransparencyChanged(Client, value)
    \/ \E value \in MarginValues : onMarginChanged(Client, value)
    \/ onChooseColorClicked(Client)
    \/ acceptDialog(Client)
    \/ rejectDialog(Client)
    \/ QDialog_reject(Client)
    \/ handleAddNewNote(Client)
    \/ StoreFails
    \/ StoreRecovers

MenuSpec == MenuInit /\ [][MenuNext]_vars

\* ------------------------- start-up of some applets while others are in use
\* "Select file..." on an applet that has started
selectFile(i) ==
    /\ pc[i] = "done"
    /\ updateCalls < MaxSaves
    /\ handleSelectFile(i)
    /\ UNCHANGED <<seq, avail, pc, localVars, cfgNoteId, cfgWrites, clientVars, viewVars,
                   dragVars, geometry, dialogVars>>

AdoptNext ==
    \/ Next
    \/ \E i \in Inst : selectFile(i)

AdoptSpec == Init /\ [][AdoptNext]_vars

\* ---------------------------------------------- one started applet, in general
\* an applet after init(), with a geometry of geoms; it has resolved its note
\* (row 1) or not, as resolved allows
AppletStarted(geoms, resolved) ==
    /\ rows = [k \in {1} |-> InitRow(StatusShown)]
    /\ seq = 1
    /\ avail \in BOOLEAN
    /\ m_db_isOpen = [i \in Inst |-> i = Client /\ avail]
    /\ pc = [i \in Inst |-> "done"]
    /\ \E r \in resolved :
          /\ m_note = [i \in Inst |-> IF i = Client /\ r
                                      THEN [Note EXCEPT !.id = 1] ELSE Note]
          /\ cfgNoteId = [i \in Inst |-> IF i = Client /\ r THEN 1 ELSE InvalidId]
    /\ allNotes = [i \in Inst |-> << >>]
    /\ adoptableNote = [i \in Inst |-> Note]
    /\ foundPending = [i \in Inst |-> FALSE]
    /\ newId = [i \in Inst |-> InvalidId]
    /\ cfgWrites = [i \in Inst |-> 0]
    /\ call = NoCall
    /\ issued = {}
    /\ deleted = {}
    /\ m_dragResizeMode = FALSE
    /\ m_currentResizeHandle = HandleNone
    /\ m_dragStartPosition = <<0, 0>>
    /\ m_originalGeometryOnDragStart = QRectF(0, 0, 0, 0)
    /\ geometry \in geoms
    /\ leftButton = FALSE
    /\ gestures = 0
    /\ resized = FALSE
    /\ updateCalls = 0
    /\ dialogOpen = FALSE
    /\ m_originalStyle = NoteStyle
    /\ viewBy = 0
    /\ m_notes = << >>

\* ------------------------------------------------ hit-testing of a press
\* bounds of at least the minimum size, one of them exactly the minimum
HitBounds == {QRectF(0, 0, MinWidth, MinHeight), QRectF(100, 100, 200, 150)}

\* local positions on, next to and between the lines that delimit the regions
ProbePoints(g) ==
    LET m == ResizeMargin
        xs == {-1, 0, m - 1, m, m + 1, g.w \div 2,
               g.w - m - 1, g.w - m, g.w - m + 1, g.w, g.w + 1}
        ys == {-1, 0, m - 1, m, m + 1, g.h \div 2,
               g.h - m - 1, g.h - m, g.h - m + 1, g.h, g.h + 1}
    IN  xs \X ys

HitInit == AppletStarted(HitBounds, {TRUE})

HitNext ==
    \/ handleDragResize
    \/ \E pos \in ProbePoints(geometry) : mousePressEvent(Client, pos)
    \/ mouseReleaseEvent(Client)

HitSpec == HitInit /\ [][HitNext]_vars

\* ------------------------------- applets and the management view, one store
\* the applet is on screen and no modal dialog of its own blocks its input
Usable(i) == pc[i] = "done" /\ viewBy # i /\ ~dialogOpen

\* handleHide(): nothing for an invalid note; else the status goes to "hidden" in
\* m_note, the note is saved and the applet leaves the screen
handleHide(i) ==
    /\ IF ~isValid(m_note[i])
       THEN UNCHANGED <<m_note, rows, m_db_isOpen, updateCalls, pc>>
       ELSE /\ m_note' = [m_note EXCEPT ![i].status = StatusHidden]
            /\ saveNoteData(i, m_note'[i])
            /\ pc' = [pc EXCEPT ![i] = "hidden"]
    /\ UNCHANGED <<seq, avail, localVars, cfgNoteId, cfgWrites, clientVars, viewVars,
                   dragVars, geometry, dialogVars>>

\* handleDelete(): nothing for an invalid note; else deleteNoteById(m_note.id), whose
\* result is not looked at, and remove(), which takes the applet and its config away
handleDelete(i) ==
    /\ IF ~isValid(m_note[i])
       THEN UNCHANGED <<rows, m_db_isOpen, pc, cfgNoteId>>
       ELSE /\ m_db_isOpen' = AfterOpen(i)
            /\ rows' = IF ExecOk(i) THEN DeleteRow(m_note[i].id) ELSE rows
            /\ pc' = [pc EXCEPT ![i] = "removed"]
            /\ cfgNoteId' = [cfgNoteId EXCEPT ![i] = InvalidId]
    /\ UNCHANGED <<seq, avail, m_note, localVars, cfgWrites, clientVars, viewVars,
                   mouseVars>>

\* what the management view never touches
viewFrame == <<seq, avail, startupVars, clientVars, mouseVars>>

\* handleOpenNotes(): the dialog is constructed, its model loads the list, exec()
handleOpenNotes(i) ==
    /\ viewBy = 0
    /\ viewBy' = i
    /\ m_notes' = getAllNotes(i)
    /\ m_db_isOpen' = AfterOpen(i)
    /\ UNCHANGED <<rows, viewFrame>>

\* the "Refresh List" button: NotesTableModel::loadNotes()
onRefreshClicked ==
    /\ viewBy # 0
    /\ m_notes' = getAllNotes(viewBy)
    /\ m_db_isOpen' = AfterOpen(viewBy)
    /\ UNCHANGED <<rows, viewBy, viewFrame>>

\* the status onTableDoubleClicked() asks for: "hidden" for a shown note, "shown"
\* for any other
toggledStatus(status) == IF status = StatusShown THEN StatusHidden ELSE StatusShown

\* NotesTableModel::setData() on the status column: a different status that is
\* "shown" or "hidden" goes into the listed note, then setNoteStatus(note.id, it)
NotesTableModel_setData(row, newStatus) ==
    LET note == m_notes[row] IN
    IF note.status # newStatus /\ newStatus \in {StatusShown, StatusHidden}
    THEN /\ m_notes' = [m_notes EXCEPT ![row].status = newStatus]
         /\ m_db_isOpen' = AfterOpen(viewBy)
         /\ rows' = IF ExecOk(viewBy) THEN SetStatusRow(note.id, newStatus) ELSE rows
    ELSE UNCHANGED <<m_notes, m_db_isOpen, rows>>

\* onTableDoubleClicked() on the status cell of a listed row
onTableDoubleClicked(row) ==
    /\ viewBy # 0
    /\ row \in 1..Len(m_notes)
    /\ IF ~isValid(m_notes[row])
       THEN UNCHANGED <<m_notes, m_db_isOpen, rows>>
       ELSE NotesTableModel_setData(row, toggledStatus(m_notes[row].status))
    /\ UNCHANGED <<viewBy, viewFrame>>

\* the "Close" button: accept() ends exec() and the dialog is destroyed
AllNotesDialog_accept ==
    /\ viewBy # 0
    /\ viewBy' = 0
    /\ m_notes' = << >>
    /\ UNCHANGED <<rows, m_db_isOpen, viewFrame>>

\* one pending note waits for adoption, the store works, and every applet starts
\* with no remembered id
SharedInit ==
    /\ Init
    /\ avail
    /\ seq = 1
    /\ DOMAIN rows = {1}
    /\ rows[1].status = StatusPending
    /\ \A i \in Inst : cfgNoteId[i] = InvalidId

\* the user works with started applets through their menus and with an open
\* management view while other applets start
SharedNext ==
    \/ Next
    \/ \E i \in Inst : Usable(i) /\ selectFile(i)
    \/ \E i \in Inst : Usable(i) /\ handleHide(i)
    \/ \E i \in Inst : Usable(i) /\ handleDelete(i)
    \/ \E i \in Inst : Usable(i) /\ handleOpenNotes(i)
    \/ onRefreshClicked
    \/ \E row \in 1..MaxRowId : onTableDoubleClicked(row)
    \/ AllNotesDialog_accept

SharedSpec == SharedInit /\ [][SharedNext]_vars

\* ------------------- the same, with the first applet dragged and the second
\* one's menu opening the management view
DragPress == <<geometry.w \div 2, geometry.h \div 2>>
DragTo == <<m_dragStartPosition[1] + 30, m_dragStartPosition[2] + 30>>

HoldersNext ==
    \/ Next
    \/ \E i \in Inst : Usable(i) /\ selectFile(i)
    \/ \E i \in Inst : Usable(i) /\ handleHide(i)
    \/ \E i \in Inst : Usable(i) /\ handleDelete(i)
    \/ Usable(Client) /\ updateCalls < MaxSaves /\ handleDragResize
    \/ Usable(Client) /\ updateCalls < MaxSaves /\ mousePressEvent(Client, DragPress)
    \/ Usable(Client) /\ mouseMoveEvent(DragTo)
    \/ Usable(Client) /\ mouseReleaseEvent(Client)
    \/ \E i \in Inst \ {Client} : Usable(i) /\ handleOpenNotes(i)
    \/ onRefreshClicked
    \/ \E row \in 1..MaxRowId : onTableDoubleClicked(row)
    \/ AllNotesDialog_accept

HoldersSpec == SharedInit /\ [][HoldersNext]_vars

\* ---------------------------- styling and later writes, one applet, store up
StyleInit == AppletStarted(StartGeometries, {TRUE}) /\ avail

\* the dialog's slots run while it executes; the applet's handlers run otherwise
StyleNext ==
    \/ Usable(Client) /\ handleStyling(Client)
    \/ \E value \in TransparencyValues : onTransparencyChanged(Client, value)
    \/ \E value \in MarginValues : onMarginChanged(Client, value)
    \/ onChooseColorClicked(Client)
    \/ acceptDialog(Client)
    \/ rejectDialog(Client)
    \/ QDialog_reject(Client)
    \/ Usable(Client) /\ selectFile(Client)
    \/ Usable(Client) /\ handleHide(Client)
    \/ Usable(Client) /\ updateCalls < MaxSaves /\ handleDragResize
    \/ Usable(Client) /\ updateCalls < MaxSaves /\ mousePressEvent(Client, DragPress)
    \/ Usable(Client) /\ mouseMoveEvent(DragTo)
    \/ Usable(Client) /\ mouseReleaseEvent(Client)

StyleSpec == StyleInit /\ [][StyleNext]_vars

\* ----------------------------------- an applet that has resolved no note
\* start-up left m_note invalid; row 1 is some other applet's note
UnresolvedInit == AppletStarted(StartGeometries, {FALSE})

UnresolvedNext ==
    \/ Usable(Client) /\ handleStyling(Client)
    \/ Usable(Client) /\ selectFile(Client)
    \/ Usable(Client) /\ handleHide(Client)
    \/ Usable(Client) /\ handleDelete(Client)
    \/ Usable(Client) /\ handleDragResize
    \/ \E pos \in PressPoints(geometry) : Usable(Client) /\ mousePressEvent(Client, pos)
    \/ \E d \in Deltas :
          /\ Usable(Client)
          /\ mouseMoveEvent(<<m_dragStartPosition[1] + d[1], m_dragStartPosition[2] + d[2]>>)
    \/ Usable(Client) /\ mouseReleaseEvent(Client)
    \/ \E n \in InputNotes : DatabaseManager_updateNote(Client, [n EXCEPT !.id = InvalidId])
    \/ StoreFails
    \/ StoreRecovers

UnresolvedSpec == UnresolvedInit /\ [][UnresolvedNext]_vars

\* ------------------------------------------------------------ properties
PastResolution == {"load", "done"}

PendingIds == {k \in DOMAIN rows : rows[k].status = StatusPending}

MinOf(S) == CHOOSE x \in S : \A y \in S : x <= y

\* instance i took a step of its start-up
Stepped(i) == pc'[i] # pc[i]

\* instance i listed record k as its candidate and its adoption write reported success
ClaimWon(i, k) ==
    /\ pc[i] = "load"
    /\ foundPending[i]
    /\ adoptableNote[i].id = k
    /\ m_note[i].id = k

\* C1: of the instances that concurrently try to claim one pending record, at most
\* one has its claim reported as successful (exactly one true, the others false).
C1_AtMostOneClaimWins ==
    \A k \in 1..seq : Cardinality({i \in Inst : ClaimWon(i, k)}) <= 1

\* C2: no two instances that resolved their identity in this start-up (no
\* remembered id) hold the same noteId.
C2_DistinctNoteIds ==
    \A i, j \in Inst :
        (i # j /\ cfgWrites[i] = 1 /\ cfgWrites[j] = 1
              /\ isValid(m_note[i]) /\ isValid(m_note[j]))
        => m_note[i].id # m_note[j].id

OtherCandidates(i) ==
    {k \in 1..Len(allNotes[i]) :
        /\ allNotes[i][k].status = StatusPending
        /\ allNotes[i][k].id # adoptableNote[i].id}

C5_CreateWhenNoPending ==
    [][\A i \in Inst :
        /\ (pc[i] = "start" /\ ~isValid(m_note[i]) /\ Stepped(i) /\ PendingIds = {})
           => pc'[i] = "create" /\ rows' = rows
        /\ (pc[i] = "create" /\ Stepped(i) /\ avail)
           => /\ m_note'[i].id \notin DOMAIN rows
              /\ isValid(m_note'[i])
              /\ newId'[i] = m_note'[i].id
              /\ DOMAIN rows' = DOMAIN rows \cup {m_note'[i].id}
              /\ rows'[m_note'[i].id] = BindRow(Note)
              /\ rows'[m_note'[i].id].status = StatusShown
              /\ \A k \in DOMAIN rows : rows'[k] = rows[k]
              /\ pc'[i] = "load"
        /\ (pc[i] = "load" /\ Stepped(i)) => rows' = rows
      ]_vars

\* an instance created its record in a store without pending records
C5_Witness ==
    \E i \in Inst :
        /\ pc[i] = "load"
        /\ ~foundPending[i]
        /\ isValid(m_note[i])
        /\ m_note[i].id = newId[i]
        /\ rows[newId[i]] = BindRow(Note)
        /\ Cardinality(DOMAIN rows) >= 2
        /\ PendingIds = {}

\* instance i holds an id it remembered: its config slot holds an id that this
\* start-up did not write (readConfig restored it)
Remembered(i) == cfgWrites[i] = 0 /\ cfgNoteId[i] # InvalidId

\* C6: the start-up of an instance with a remembered id whose record exists goes
\* straight to open/load: it never lists, claims or creates, and none of its steps
\* changes the table, even while pending records exist.
C6_RememberedSkipsAdoption ==
    [][\A i \in Inst :
        (Remembered(i) /\ Stepped(i))
        => /\ rows' = rows
           /\ seq' = seq
           /\ pc'[i] = "done"
           /\ cfgNoteId' = cfgNoteId
           /\ m_note'[i].id = m_note[i].id
      ]_vars

\* a remembered instance finished start-up while a pending record is still waiting
C6_Witness ==
    \E i \in Inst :
        /\ pc[i] = "done"
        /\ Remembered(i)
        /\ m_note[i].id \in DOMAIN rows
        /\ PendingIds # {}
        /\ m_note[i].status = rows[m_note[i].id].status

C8_WriteConfigOnce ==
    \A i \in Inst :
        /\ cfgWrites[i] <= 1
        /\ cfgWrites[i] = 1 => isValid(m_note[i]) /\ cfgNoteId[i] = m_note[i].id
        /\ pc[i] = "load" => (isValid(m_note[i]) <=> cfgWrites[i] = 1)
        /\ (pc[i] = "load" /\ ~isValid(m_note[i])) => cfgNoteId[i] = InvalidId

\* one resolution ended resolved (one write) and another ended unresolved (no write)
C8_Witness ==
    \E i, j \in Inst :
        /\ pc[i] = "load" /\ isValid(m_note[i]) /\ cfgWrites[i] = 1
        /\ cfgNoteId[i] = m_note[i].id
        /\ pc[j] = "load" /\ ~isValid(m_note[j]) /\ cfgWrites[j] = 0

\* C9: while the store is unavailable no step of a start-up changes the table; a
\* failed listing leads to create, a failed create leaves the note unresolved and
\* nothing remembered; an unresolved note stays unresolved to the end of start-up;
\* and the listing is made only from the start position (no second resolution).
C9_UnavailableIsFatalNoRetry ==
    [][\A i \in Inst :
        Stepped(i) =>
        /\ ~avail => rows' = rows /\ seq' = seq
        /\ (~avail /\ pc[i] = "start" /\ ~isValid(m_note[i])) => pc'[i] = "create"
        /\ (~avail /\ pc[i] \in {"create", "fallback"})
           => /\ pc'[i] = "load"
              /\ ~isValid(m_note'[i])
              /\ cfgNoteId'[i] = cfgNoteId[i]
              /\ cfgWrites'[i] = 0
        /\ (pc[i] \in PastResolution /\ ~isValid(m_note[i]))
           => ~isValid(m_note'[i]) /\ rows' = rows
        /\ pc[i] # "start" => pc'[i] \notin {"start", "claim", "create"}
      ]_vars

\* start-up finished unresolved with the store down, although records (a pending
\* one among them) are stored
C9_Witness ==
    \E i \in Inst :
        /\ pc[i] = "done"
        /\ ~avail
        /\ ~isValid(m_note[i])
        /\ cfgNoteId[i] = InvalidId
        /\ cfgWrites[i] = 0
        /\ PendingIds # {}

\* C10: under weak fairness of each instance's steps, an instance that starts with
\* no remembered id eventually is past resolution with a valid noteId, of the
\* record it adopted or of the record it created, unless the store went down.
C10_EventuallyResolved ==
    \A i \in Inst :
        (pc[i] = "start" /\ ~isValid(m_note[i]))
        ~> \/ ~avail
           \/ /\ pc[i] = "load"
              /\ isValid(m_note[i])
              /\ \/ foundPending[i] /\ m_note[i].id = adoptableNote[i].id
                 \/ m_note[i].id = newId[i]

\* both instances resolved, one by adoption and one by creation, store available
C10_Witness ==
    \E i, j \in Inst :
        /\ avail
        /\ pc[i] = "load" /\ pc[j] = "load"
        /\ cfgWrites[i] = 1 /\ cfgWrites[j] = 1
        /\ foundPending[i] /\ m_note[i].id = adoptableNote[i].id
        /\ ~foundPending[j] /\ m_note[j].id = newId[j]

\* ------------------------------------------------- store contract properties
\* C11: round trip: a successful addNote(noteData) followed by getNoteById of the
\* returned id gives a note equal to noteData in status, filepath, position, size
\* and style, differing only in the assigned id.
C11_RoundTrip ==
    [][\A noteData \in InputNotes, id \in InputIds :
          /\ call'.op = "addNote"
          /\ call'.arg = noteData
          /\ call'.ret = id
          /\ DatabaseManager_addNote(Client, noteData)
          => getNoteById(Client, id)' = [noteData EXCEPT !.id = id]]_vars

\* the note with every field set by its owner has just been stored and is readable
C11_Witness ==
    /\ call.op = "addNote"
    /\ call.ret # InvalidId
    /\ call.arg.filepath # ""
    /\ call.arg.style = CustomStyle
    /\ getNoteById(Client, call.ret) = [call.arg EXCEPT !.id = call.ret]

\* C12: the ids returned by successful addNote calls are pairwise distinct, and the
\* id of a deleted row is never returned by a later addNote.
C12_IdsNeverReused ==
    [][\A noteData \in InputNotes :
          /\ call'.op = "addNote"
          /\ call'.arg = noteData
          /\ call'.ret # InvalidId
          /\ DatabaseManager_addNote(Client, noteData)
          => call'.ret \notin issued \cup deleted]_vars

\* an addNote succeeded after the row with the largest id had been deleted
C12_Witness ==
    /\ call.op = "addNote"
    /\ call.ret # InvalidId
    /\ call.ret - 1 \in deleted
    /\ issued \ {call.ret} # {}

\* C13: setNoteStatus(id, "archived") is rejected and the stored status of the row
\* is unchanged.
C13_ArchivedRejected ==
    [][\A id \in InputIds :
          DatabaseManager_setNoteStatus(Client, id, StatusArchived) /\ id \in DOMAIN rows
          => call'.ret = FALSE /\ rows'[id].status = rows[id].status]_vars

\* C14: the status of every stored row is one of shown, hidden, pending_placement.
C14_StatusDomain ==
    \A k \in DOMAIN rows : rows[k].status \in Statuses

\* C15: deleteNoteById of an id that matches no row succeeds and leaves the table
\* unchanged, and getNoteById of that id then gives a note with id -1; a second
\* deleteNoteById of the same id has the same result and the same final table.
C15_DeleteIdempotent ==
    [][\A id \in InputIds :
          /\ call'.op = "deleteNoteById"
          /\ call'.arg = id
          /\ avail
          /\ DatabaseManager_deleteNoteById(Client, id)
          => /\ call'.ret = TRUE
             /\ id \notin DOMAIN rows => rows' = rows
             /\ getNoteById(Client, id)' = Note
             /\ ExecOk(Client)'
             /\ DeleteRow(id)' = rows']_vars

\* a deleteNoteById of an id that never had a row succeeded on a non-empty table
C15_Witness ==
    /\ call.op = "deleteNoteById"
    /\ call.ret = TRUE
    /\ call.arg \notin DOMAIN rows
    /\ call.arg \notin deleted
    /\ rows # << >>

\* C16: updateNote of a note whose id matches no row reports failure and inserts
\* no row.
C16_UpdateMissingReported ==
    [][\A noteData \in InputNotes, id \in InputIds :
          /\ DatabaseManager_updateNote(Client, [noteData EXCEPT !.id = id])
          /\ avail
          /\ id \notin DOMAIN rows
          => call'.ret = FALSE /\ rows' = rows]_vars

\* the columns of a row other than its status
OtherColumns(r) == [c \in DOMAIN r \ {"status"} |-> r[c]]

\* C17: setNoteStatus(id, status) with one of the three statuses changes only the
\* status column of the row with that id, and a following getAllNotes contains the
\* note with that id and the new status.
C17_SetStatusFrame ==
    [][\A id \in InputIds, status \in InputStatuses \cap Statuses :
          /\ call'.op = "setNoteStatus"
          /\ call'.arg = <<id, status>>
          /\ avail
          /\ id \in DOMAIN rows
          /\ DatabaseManager_setNoteStatus(Client, id, status)
          => /\ call'.ret = TRUE
             /\ DOMAIN rows' = DOMAIN rows
             /\ \A k \in DOMAIN rows \ {id} : rows'[k] = rows[k]
             /\ OtherColumns(rows'[id]) = OtherColumns(rows[id])
             /\ rows'[id].status = status
             /\ \E list \in {getAllNotes(Client)'} :
                   \E j \in 1..Len(list) : list[j].id = id /\ list[j].status = status]_vars

\* the status of a row with an owner-set filepath, geometry and style was changed
\* while another row was stored
C17_Witness ==
    /\ call.op = "setNoteStatus"
    /\ call.ret = TRUE
    /\ call.arg[1] \in DOMAIN rows
    /\ call.arg[2] = StatusShown
    /\ rows[call.arg[1]].status = StatusShown
    /\ rows[call.arg[1]].style = CustomStyle
    /\ DOMAIN rows # {call.arg[1]}

C19_LazyIdempotentOpen ==
    [][/\ DatabaseManager_openDb(Client)
          => /\ rows' = rows /\ seq' = seq
             /\ m_db_isOpen[Client] => call'.ret = TRUE /\ m_db_isOpen' = m_db_isOpen
             /\ UNCHANGED <<avail, startupVars, mouseVars, viewVars, issued, deleted>>
       /\ ~m_db_isOpen[Client] /\ avail
          => /\ \A noteData \in InputNotes :
                   DatabaseManager_addNote(Client, noteData)
                   => /\ m_db_isOpen'[Client]
                      /\ call'.ret = NextRowId
                      /\ rows' = InsertRow(noteData)
             /\ \A noteData \in InputNotes, id \in InputIds :
                   DatabaseManager_updateNote(Client, [noteData EXCEPT !.id = id])
                   => /\ m_db_isOpen'[Client]
                      /\ call'.ret = TRUE
                      /\ rows' = UpdateRow([noteData EXCEPT !.id = id])
             /\ \A id \in InputIds :
                   DatabaseManager_getNoteById(Client, id)
                   => /\ m_db_isOpen'[Client]
                      /\ id \in DOMAIN rows => call'.ret = ReadRow(id, rows[id])
             /\ DatabaseManager_getAllNotes(Client)
                   => /\ m_db_isOpen'[Client]
                      /\ Len(call'.ret) = Cardinality(DOMAIN rows)
             /\ \A id \in InputIds :
                   DatabaseManager_deleteNoteById(Client, id)
                   => /\ m_db_isOpen'[Client]
                      /\ call'.ret = TRUE
                      /\ rows' = DeleteRow(id)
             /\ \A id \in InputIds, status \in InputStatuses :
                   DatabaseManager_setNoteStatus(Client, id, status)
                   => /\ m_db_isOpen'[Client]
                      /\ call'.ret = TRUE
                      /\ rows' = SetStatusRow(id, status)]_vars

\* a row was inserted by an addNote that found the database closed and opened it
C19_Witness ==
    /\ call.op = "addNote"
    /\ call.opened
    /\ call.ret # InvalidId
    /\ m_db_isOpen[Client]
    /\ call.ret \in DOMAIN rows

\* -------------------------------------------------- interaction properties
\* C20: resize clamp: whatever the starting geometry, the resize handle and the
\* pointer moves, the geometry committed on release after a resize (at least one
\* pointer move handled with a corner or edge handle since the press) has
\* width >= 50 and height >= 30, in the applet's note and in the stored row.
C20_ResizeClamp ==
    [][/\ mouseReleaseEvent(Client)
       /\ m_dragResizeMode
       /\ m_currentResizeHandle \in EdgeHandles
       /\ resized
       => /\ m_note'[Client].size[1] >= MinWidth
          /\ m_note'[Client].size[2] >= MinHeight
          /\ avail => /\ rows'[1].size_width >= MinWidth
                      /\ rows'[1].size_height >= MinHeight
                      /\ rows'[1].size_width = geometry.w
                      /\ rows'[1].size_height = geometry.h]_vars

\* a drag that would have shrunk a 200 x 150 applet below the minimum in both
\* directions was committed at exactly 50 x 30 and stored
C20_Witness ==
    /\ gestures > 0
    /\ ~leftButton
    /\ resized
    /\ m_currentResizeHandle = HandleNone
    /\ m_originalGeometryOnDragStart.w = 200
    /\ m_originalGeometryOnDragStart.h = 150
    /\ m_note[Client].size = <<MinWidth, MinHeight>>
    /\ rows[1].size_width = MinWidth
    /\ rows[1].size_height = MinHeight

\* the pointer position of a move that is displaced by d from the press
MovedBy(d) == <<m_dragStartPosition[1] + d[1], m_dragStartPosition[2] + d[2]>>

\* C21: when a resize would make the width less than 50 or the height less than
\* 30, the clamp keeps the edge opposite to the dragged one where it was when the
\* drag started: after a Left, TopLeft or BottomLeft move the right edge is the
\* original right edge, after a Top, TopLeft or TopRight move the bottom edge is
\* the original bottom edge, for every displacement.
C21_ClampKeepsOppositeEdge ==
    [][\A d \in Deltas :
          /\ m_dragResizeMode
          /\ m_currentResizeHandle \in LeftHandles \cup TopHandles
          /\ mouseMoveEvent(MovedBy(d))
          => LET h == m_currentResizeHandle
                 o == m_originalGeometryOnDragStart
                 u == newGeometry_unclamped(h, o, d)
             IN  /\ (h \in LeftHandles /\ u.w < MinWidth)
                        => right(geometry') = right(o)
                 /\ (h \in TopHandles /\ u.h < MinHeight)
                        => bottom(geometry') = bottom(o)]_vars

\* the rectangle and displacement of the worked TopLeft example
ExampleRect == QRectF(100, 100, 200, 150)
ExampleDelta == <<-1000, -1000>>

\* C22 as stated: a TopLeft gesture from the rectangle (100, 100, 200, 150) whose
\* last move is displaced by (-1000, -1000) commits a rectangle of width 50 and
\* height 30 whose right and bottom edges are the original ones.
C22_TopLeftCommitsMinimum ==
    [][/\ m_dragResizeMode
       /\ m_currentResizeHandle = "TopLeft"
       /\ m_originalGeometryOnDragStart = ExampleRect
       /\ geometry = newGeometry("TopLeft", ExampleRect, ExampleDelta)
       /\ mouseReleaseEvent(Client)
       => /\ m_note'[Client].size = <<MinWidth, MinHeight>>
          /\ m_note'[Client].position[1] + MinWidth = right(ExampleRect)
          /\ m_note'[Client].position[2] + MinHeight = bottom(ExampleRect)]_vars

\* C22, amended: that gesture moves the left and top edges 1000 pixels outwards
\* and leaves the right and bottom edges where they were, so the move yields, and
\* the release commits and stores, the rectangle (-900, -900, 1200, 1150); no
\* clamp applies because the rectangle grows.
C22_TopLeftGrows ==
    [][/\ m_dragResizeMode
       /\ m_currentResizeHandle = "TopLeft"
       /\ m_originalGeometryOnDragStart = ExampleRect
       => /\ mouseMoveEvent(MovedBy(ExampleDelta))
                => geometry' = QRectF(-900, -900, 1200, 1150)
          /\ (geometry = QRectF(-900, -900, 1200, 1150) /\ mouseReleaseEvent(Client))
                => /\ m_note'[Client].position = <<-900, -900>>
                   /\ m_note'[Client].size = <<1200, 1150>>
                   /\ right(geometry) = right(ExampleRect)
                   /\ bottom(geometry) = bottom(ExampleRect)
                   /\ avail => /\ rows'[1].position_x = -900
                               /\ rows'[1].position_y = -900
                               /\ rows'[1].size_width = 1200
                               /\ rows'[1].size_height = 1150]_vars

\* the example gesture has been committed and stored
C22_Witness ==
    /\ gestures > 0
    /\ ~leftButton
    /\ m_currentResizeHandle = HandleNone
    /\ m_originalGeometryOnDragStart = ExampleRect
    /\ m_dragStartPosition = <<105, 105>>
    /\ m_note[Client].position = <<-900, -900>>
    /\ m_note[Client].size = <<1200, 1150>>
    /\ rows[1].size_width = 1200
    /\ rows[1].size_height = 1150

\* C23: toggling the drag/resize mode resets any drag in progress: immediately
\* after every toggle the current handle is None, and so an active handle implies
\* that the mode is on.
C23_ToggleResetsDrag ==
    [][/\ handleDragResize => m_currentResizeHandle' = HandleNone
       /\ m_currentResizeHandle' # HandleNone => m_dragResizeMode']_vars

\* a drag is in progress: the button went down on a handle and is still down
Dragging == leftButton /\ m_currentResizeHandle # HandleNone

C25_CancelRestoresStyle ==
    [][/\ (dialogOpen /\ ~dialogOpen' /\ ~acceptDialog(Client))
            => /\ m_note'[Client].style = m_originalStyle
               /\ rows' = rows
               /\ updateCalls' = updateCalls
       /\ (dialogOpen /\ dialogOpen')
            => /\ rows' = rows
               /\ updateCalls' = updateCalls]_vars

\* C26: one "Add New Note" request on a working store adds exactly one record,
\* whose status is pending_placement and whose position is the requested one; it
\* adds no other record and changes no existing one.
C26_AddsOnePendingRecord ==
    [][(avail /\ avail' /\ handleAddNewNote(Client))
          => /\ Cardinality(DOMAIN rows' \ DOMAIN rows) = 1
             /\ \A id \in DOMAIN rows' \ DOMAIN rows :
                   /\ rows'[id].status = StatusPending
                   /\ rows'[id].position_x = right(geometry) + AddNoteSpacing
                   /\ rows'[id].position_y = top(geometry)
             /\ \A id \in DOMAIN rows : id \in DOMAIN rows' /\ rows'[id] = rows[id]]_vars

\* C27: when the store update of a gesture's commit fails, the in-memory position
\* and size are still those of the geometry the drag produced, the handle is reset
\* to None, and the instance goes on: it stays resolved and in the mode, displays
\* the same geometry, and the stored row is simply left as it was.
C27_FailedCommitKeepsGeometry ==
    [][(Dragging /\ m_dragResizeMode /\ ~ExecOk(Client) /\ mouseReleaseEvent(Client))
          => /\ m_note'[Client].position = <<geometry.x, geometry.y>>
             /\ m_note'[Client].size = <<geometry.w, geometry.h>>
             /\ m_currentResizeHandle' = HandleNone
             /\ updateCalls' = updateCalls + 1
             /\ rows' = rows
             /\ geometry' = geometry
             /\ m_dragResizeMode'
             /\ isValid(m_note'[Client])
             /\ pc'[Client] = "done"]_vars

\* a resize was committed while the store was failing: the note in memory has the
\* new geometry and the stored row still has the old size
C27_Witness ==
    /\ gestures > 0
    /\ ~leftButton
    /\ resized
    /\ m_currentResizeHandle = HandleNone
    /\ updateCalls = 1
    /\ m_note[Client].position = <<geometry.x, geometry.y>>
    /\ m_note[Client].size = <<geometry.w, geometry.h>>
    /\ rows[1].size_width # geometry.w
    /\ rows[1].size_width = DefaultWidth

\* C28: adoption changes only the status of the adopted record: whatever other
\* actors wrote to the record between the adopter's listing and its claim write,
\* after the claim the record's filepath, position, size and style are the values
\* stored immediately before the claim write.
C28_AdoptionChangesStatusOnly ==
    [][\A i \in Inst :
          (pc[i] = "claim" /\ ExecOk(i) /\ m_note[i].id \in DOMAIN rows
           /\ initializeNewNote_updateNote(i))
          => /\ m_note[i].id \in DOMAIN rows'
             /\ OtherColumns(rows'[m_note[i].id]) = OtherColumns(rows[m_note[i].id])]_vars

\* C29: while the Body handle is dragged the geometry is the geometry captured at
\* press translated by the displacement: position = start position + delta and
\* size = start size, for every displacement; nothing is clamped or resized.
C29_BodyDragTranslates ==
    [][\A d \in Deltas :
          (m_dragResizeMode /\ m_currentResizeHandle = HandleBody
           /\ mouseMoveEvent(MovedBy(d)))
          => geometry' = QRectF(m_originalGeometryOnDragStart.x + d[1],
                                m_originalGeometryOnDragStart.y + d[2],
                                m_originalGeometryOnDragStart.w,
                                m_originalGeometryOnDragStart.h)]_vars

\* the body of the applet has been dragged far up and to the left
C29_Witness ==
    /\ leftButton
    /\ m_dragResizeMode
    /\ m_currentResizeHandle = HandleBody
    /\ geometry.x = m_originalGeometryOnDragStart.x - 1000
    /\ geometry.y = m_originalGeometryOnDragStart.y - 1000
    /\ geometry.w = m_originalGeometryOnDragStart.w
    /\ geometry.h = m_originalGeometryOnDragStart.h

\* the horizontal (left, width) and vertical (top, height) extent of a rectangle
xExtent(r) == <<r.x, r.w>>
yExtent(r) == <<r.y, r.h>>

\* the edge handle that gives a corner handle its horizontal and its vertical rule
xEdge(h) == IF h \in LeftHandles THEN "Left" ELSE "Right"
yEdge(h) == IF h \in TopHandles THEN "Top" ELSE "Bottom"

\* C30 as stated: for every displacement a Left or Right move leaves top, bottom
\* and height as captured at press, a Top or Bottom move leaves left, right and
\* width as captured at press, and a corner move is the combination of the rules
\* of its two edges.
C30_EdgesOwnAxisOnly ==
    [][\A d \in Deltas :
          (m_dragResizeMode /\ m_currentResizeHandle \in EdgeHandles
           /\ mouseMoveEvent(MovedBy(d)))
          => LET h == m_currentResizeHandle
                 o == m_originalGeometryOnDragStart
             IN  /\ h \in {"Left", "Right"} => yExtent(geometry') = yExtent(o)
                 /\ h \in {"Top", "Bottom"} => xExtent(geometry') = xExtent(o)
                 /\ h \notin {"Left", "Right", "Top", "Bottom"}
                       => /\ xExtent(geometry') = xExtent(newGeometry(xEdge(h), o, d))
                          /\ yExtent(geometry') = yExtent(newGeometry(yEdge(h), o, d))]_vars

\* C30, amended: the other axis is left as captured at press when its extent there
\* is at least the minimum; an extent below the minimum (width under 50, height
\* under 30) is raised to the minimum by the clamp, which moves the right or the
\* bottom edge. The near edge of the other axis (top for Left and Right moves,
\* left for Top and Bottom moves) never moves, and a corner move is the
\* combination of the rules of its two edges.
C30_EdgesOwnAxisUnlessBelowMinimum ==
    [][\A d \in Deltas :
          (m_dragResizeMode /\ m_currentResizeHandle \in EdgeHandles
           /\ mouseMoveEvent(MovedBy(d)))
          => LET h == m_currentResizeHandle
                 o == m_originalGeometryOnDragStart
             IN  /\ h \in {"Left", "Right"}
                       => yExtent(geometry') = <<o.y, Max(o.h, MinHeight)>>
                 /\ h \in {"Top", "Bottom"}
                       => xExtent(geometry') = <<o.x, Max(o.w, MinWidth)>>
                 /\ h \notin {"Left", "Right", "Top", "Bottom"}
                       => /\ xExtent(geometry') = xExtent(newGeometry(xEdge(h), o, d))
                          /\ yExtent(geometry') = yExtent(newGeometry(yEdge(h), o, d))]_vars

\* the top edge of a 40 x 20 applet is being dragged: its width has become 50
C30_Witness ==
    /\ leftButton
    /\ m_dragResizeMode
    /\ m_currentResizeHandle = "Top"
    /\ m_originalGeometryOnDragStart = QRectF(0, 0, 40, 20)
    /\ geometry.x = 0
    /\ geometry.w = MinWidth
    /\ geometry.y = -1000

\* C31: no drift. During a gesture the handle, the start point and the geometry
\* captured at press stay as they are, and the geometry after a pointer move is a
\* function of these and of the pointer position alone: also when earlier moves
\* have already changed the live geometry, a move to p gives what a single move
\* from the press directly to p gives.
C31_NoDrift ==
    [][/\ (Dragging /\ leftButton')
            => UNCHANGED <<m_currentResizeHandle, m_dragStartPosition,
                           m_originalGeometryOnDragStart>>
       /\ \A d \in Deltas :
             (Dragging /\ m_dragResizeMode /\ mouseMoveEvent(MovedBy(d)))
             => geometry' = newGeometry(m_currentResizeHandle,
                                        m_originalGeometryOnDragStart, d)]_vars

\* a BottomRight gesture with the pointer 30 pixels right of and below the press:
\* the geometry is the captured one grown by 30 each way, whatever moves came before
C31_Witness ==
    /\ Dragging
    /\ m_dragResizeMode
    /\ m_currentResizeHandle = "BottomRight"
    /\ m_originalGeometryOnDragStart = ExampleRect
    /\ geometry = QRectF(100, 100, 230, 180)

\* the region of a point of an applet of width w and height h, as the hit-testing
\* rule states it: outside the bounds none; within the margin of two adjacent
\* edges that corner; else within the margin of one edge that edge; else the body
Region(w, h, pos) ==
    LET m == ResizeMargin
        nearLeft == pos[1] <= m
        nearRight == pos[1] >= w - m
        nearTop == pos[2] <= m
        nearBottom == pos[2] >= h - m
    IN  IF pos[1] < 0 \/ pos[1] > w \/ pos[2] < 0 \/ pos[2] > h THEN HandleNone
        ELSE IF nearLeft /\ nearTop THEN "TopLeft"
        ELSE IF nearRight /\ nearTop THEN "TopRight"
        ELSE IF nearLeft /\ nearBottom THEN "BottomLeft"
        ELSE IF nearRight /\ nearBottom THEN "BottomRight"
        ELSE IF nearLeft THEN "Left"
        ELSE IF nearRight THEN "Right"
        ELSE IF nearTop THEN "Top"
        ELSE IF nearBottom THEN "Bottom"
        ELSE HandleBody

\* C32: with the mode on and bounds of at least 50 x 30, a press at any point
\* selects the handle of the point's region: a corner in its corner square, also
\* where an edge strip overlaps it, an edge in the rest of its strip, Body in the
\* interior inset by the margin, one of these nine for every point inside the
\* bounds, and None outside the bounds.
C32_HitTesting ==
    [][(~leftButton /\ leftButton' /\ m_dragResizeMode
        /\ geometry.w >= MinWidth /\ geometry.h >= MinHeight)
          => IF m_currentResizeHandle' # HandleNone
             THEN \* the press was at the start point, taken in local coordinates
                  LET pos == <<m_dragStartPosition'[1] - geometry.x,
                               m_dragStartPosition'[2] - geometry.y>>
                  IN  /\ mousePressEvent(Client, pos)
                      /\ m_currentResizeHandle' = Region(geometry.w, geometry.h, pos)
                      /\ contains(rect, pos)
             ELSE \* the press was at one of the points that select no handle
                  \A pos \in ProbePoints(geometry) :
                      Region(geometry.w, geometry.h, pos) # HandleNone
                          => getResizeHandle(pos) # HandleNone]_vars

\* a press on the line shared by the top-left corner square and the left strip of
\* an applet of the minimum size has selected the corner
C32_Witness ==
    /\ leftButton
    /\ m_dragResizeMode
    /\ geometry = QRectF(0, 0, MinWidth, MinHeight)
    /\ m_dragStartPosition = <<ResizeMargin - 1, ResizeMargin>>
    /\ m_currentResizeHandle = "TopLeft"

C34_AdoptsExistingRecordOnly ==
    [][\A i \in Inst :
          pc[i] = "claim" /\ pc'[i] # "claim" =>
             IF m_note[i].id \in DOMAIN rows
             THEN cfgNoteId'[i] # cfgNoteId[i] => cfgNoteId'[i] \in DOMAIN rows
             ELSE pc'[i] = "fallback" /\ cfgNoteId'[i] = cfgNoteId[i]]_vars

\* a write of the owning instance that does not mean to change the status
OwnerWrite(i) == selectFile(i) \/ mouseReleaseEvent(i) \/ acceptDialog(i)

\* i alone holds the id of its note
SoleHolder(i) == \A j \in Inst \ {i} : m_note[j].id # m_note[i].id

\* C35: a status written by the management view is not reverted by a later write
\* of the owning instance that does not mean to change the status: when the row of
\* a shown applet, which no other applet holds, has been set to "hidden", a file
\* selection, geometry commit or style confirmation of that applet leaves it hidden.
C35_OwnerWriteKeepsStatus ==
    [][\A i \in Inst :
          /\ pc[i] = "done"
          /\ m_note[i].id \in DOMAIN rows
          /\ rows[m_note[i].id].status = StatusHidden
          /\ m_note[i].status = StatusShown
          /\ SoleHolder(i)
          /\ OwnerWrite(i)
          => rows'[m_note[i].id].status = StatusHidden]_vars

\* C36: a record leaves "pending_placement" only by adoption or by deletion: every
\* step that takes a stored row from pending to another status is the claim write
\* of a starting instance that takes that id as its own.
C36_PendingLeavesByAdoptionOnly ==
    [][\A k \in DOMAIN rows :
          /\ rows[k].status = StatusPending
          /\ k \in DOMAIN rows'
          /\ rows'[k].status # StatusPending
          => \E i \in Inst : /\ pc[i] = "claim"
                             /\ m_note[i].id = k
                             /\ initializeNewNote_updateNote(i)
                             /\ cfgNoteId'[i] = k]_vars

\* C37: a deleted record is never resurrected: an id that has been given out and
\* has no row any more has no row after any step, whatever an applet that still
\* holds the id or a management view that still lists it writes.
C37_DeletedStaysDeleted ==
    [][\A k \in 1..seq : k \notin DOMAIN rows => k \notin DOMAIN rows']_vars

\* two applets hold the id of a row that one of them deleted; the other one has
\* committed a drag, selected a file and hidden itself, and the view lists the id
C37_Witness ==
    /\ \E j \in Inst \ {Client} :
          /\ pc[j] = "removed"
          /\ m_note[j].id = m_note[Client].id
          /\ m_note[j].filepath = ""
    /\ m_note[Client].id \in 1..seq
    /\ m_note[Client].id \notin DOMAIN rows
    /\ pc[Client] = "hidden"
    /\ m_note[Client].filepath = SelectableFile
    /\ gestures = 1
    /\ m_note[Client].position = <<geometry.x, geometry.y>>
    /\ geometry.x # DefaultPosX

\* C38: style edits of a styling dialog that ended without confirmation are never
\* persisted. The store works throughout, so the stored style is the one last
\* confirmed, and the style held when a dialog opens is the stored one: the stored
\* style of the applet's note changes only in the step that confirms a dialog.
C38_UnconfirmedStyleNeverStored ==
    [][rows'[m_note[Client].id].style # rows[m_note[Client].id].style
          => acceptDialog(Client)]_vars

\* C39: an instance whose noteId is unresolved never updates or deletes a stored
\* record: every step of its handlers (hide, delete, styling, file selection,
\* press, move, release) leaves the table as it is, makes no updateNote call and
\* opens no database; updateNote with id -1 returns false, the table and the
\* database handle untouched.
C39_UnresolvedNeverWrites ==
    [][~isValid(m_note[Client]) =>
          /\ rows' = rows
          /\ seq' = seq
          /\ m_db_isOpen' = m_db_isOpen
          /\ updateCalls' = updateCalls
          /\ ~dialogOpen'
          /\ call' # call => call'.op = "updateNote" /\ call'.ret = FALSE]_vars

\* the unresolved applet has been given a file, dragged and released, and
\* updateNote has been called with id -1: row 1 is as it was
C39_Witness ==
    /\ ~isValid(m_note[Client])
    /\ m_note[Client].filepath = SelectableFile
    /\ gestures = 1
    /\ ~leftButton
    /\ geometry.x # m_originalGeometryOnDragStart.x
    /\ m_note[Client].position = <<geometry.x, geometry.y>>
    /\ call # NoCall
    /\ call.arg.id = InvalidId
    /\ call.ret = FALSE
    /\ rows = [k \in {1} |-> InitRow(StatusShown)]

====
